---- MODULE Spec2Model ----
(***************************************************************************)
(* A model of setup.py, the build driver of spaCy: the platform classifier *)
(* is_new_osx, the flag tables COMPILE_OPTIONS / LINK_OPTIONS and their    *)
(* macOS augmentation, build_options, generate_cython, clean, the chdir    *)
(* context manager and setup_package.                                      *)
(*                                                                         *)
(* A Python str is a sequence of one-character strings, so that replace,   *)
(* split, count, startswith and int() are computed character by character. *)
(* A Python list is an object on a heap (heap[id] is its contents), so     *)
(* that the in-place += of build_options acts on objects, as in Python.    *)
(***************************************************************************)
EXTENDS Integers, Sequences, FiniteSets, TLC

(***************************************************************************)
(* Bounds of the model.                                                    *)
(***************************************************************************)
\* How many of the files of InitialFileUniverse exist before the first run.
MaxInitFiles == 3

\* How many times the build command consults build_options in one process.
MaxBuildCalls == 2

(***************************************************************************)
(* Python str operations.                                                  *)
(***************************************************************************)
\* str.replace(old, new) for one-character old and new.
RECURSIVE str_replace(_, _, _)
str_replace(s, old, new) ==
  IF s = <<>> THEN <<>>
  ELSE <<IF Head(s) = old THEN new ELSE Head(s)>> \o str_replace(Tail(s), old, new)

\* str.count(c) for a one-character c.
RECURSIVE str_count(_, _)
str_count(s, c) ==
  IF s = <<>> THEN 0
  ELSE (IF Head(s) = c THEN 1 ELSE 0) + str_count(Tail(s), c)

\* str.split(sep) for a one-character sep: always at least one part.
RECURSIVE str_split(_, _)
str_split(s, sep) ==
  IF \A i \in DOMAIN s : s[i] # sep THEN <<s>>
  ELSE LET k == CHOOSE i \in DOMAIN s :
                  /\ s[i] = sep
                  /\ \A j \in 1..(i - 1) : s[j] # sep
       IN  <<SubSeq(s, 1, k - 1)>> \o str_split(SubSeq(s, k + 1, Len(s)), sep)

\* sep.join(parts).
RECURSIVE str_join(_, _)
str_join(sep, parts) ==
  IF parts = <<>> THEN <<>>
  ELSE IF Len(parts) = 1 THEN parts[1]
  ELSE parts[1] \o sep \o str_join(sep, Tail(parts))

\* str.startswith(prefix).
str_startswith(s, prefix) ==
  /\ Len(s) >= Len(prefix)
  /\ SubSeq(s, 1, Len(prefix)) = prefix

DigitValue ==
  [c \in {"0", "1", "2", "3", "4", "5", "6", "7", "8", "9"} |->
     CASE c = "0" -> 0 [] c = "1" -> 1 [] c = "2" -> 2 [] c = "3" -> 3
       [] c = "4" -> 4 [] c = "5" -> 5 [] c = "6" -> 6 [] c = "7" -> 7
       [] c = "8" -> 8 [] c = "9" -> 9]

\* int(s) raises ValueError unless s is a decimal literal (the platform
\* strings of the model carry no sign, blank or underscore).
int_accepts(s) ==
  /\ s # <<>>
  /\ \A i \in DOMAIN s : s[i] \in DOMAIN DigitValue

RECURSIVE int_of(_)
int_of(s) ==
  IF s = <<>> THEN 0
  ELSE 10 * int_of(SubSeq(s, 1, Len(s) - 1)) + DigitValue[s[Len(s)]]

(***************************************************************************)
(* is_new_osx.  The result is a record: raised is "none" and value the     *)
(* boolean returned, or raised names the exception that escapes.           *)
(***************************************************************************)
Returns(b) == [raised |-> "none", value |-> b]

Raises(e) == [raised |-> e, value |-> FALSE]

\* The threshold of `minor_version >= 7`.
MinMinorVersion == 7

is_new_osx(platform, name) ==
  IF platform # "darwin" THEN Returns(FALSE)
  ELSE IF str_startswith(name, <<"m","a","c","o","s","x","-","1","0">>) THEN
    LET version == str_split(str_split(name, "-")[2], ".")
    IN  IF Len(version) < 2 THEN Raises("IndexError")
        ELSE IF ~int_accepts(version[2]) THEN Raises("ValueError")
        ELSE Returns(int_of(version[2]) >= MinMinorVersion)
  ELSE Returns(FALSE)

(***************************************************************************)
(* The manifest and the flag tables.                                       *)
(***************************************************************************)
MOD_NAMES ==
  << <<"s","p","a","c","y",".","p","a","r","t","s","_","o","f","_","s","p","e","e","c","h">>,
     <<"s","p","a","c","y",".","s","t","r","i","n","g","s">>,
     <<"s","p","a","c","y",".","l","e","x","e","m","e">>,
     <<"s","p","a","c","y",".","v","o","c","a","b">>,
     <<"s","p","a","c","y",".","a","t","t","r","s">>,
     <<"s","p","a","c","y",".","k","b">>,
     <<"s","p","a","c","y",".","m","o","r","p","h","o","l","o","g","y">>,
     <<"s","p","a","c","y",".","p","i","p","e","l","i","n","e",".","p","i","p","e","s">>,
     <<"s","p","a","c","y",".","p","i","p","e","l","i","n","e",".","m","o","r","p","h","o","l","o","g","i","z","e","r">>,
     <<"s","p","a","c","y",".","s","y","n","t","a","x",".","s","t","a","t","e","c","l","a","s","s">>,
     <<"s","p","a","c","y",".","s","y","n","t","a","x",".","_","s","t","a","t","e">>,
     <<"s","p","a","c","y",".","t","o","k","e","n","i","z","e","r">>,
     <<"s","p","a","c","y",".","s","y","n","t","a","x",".","n","n","_","p","a","r","s","e","r">>,
     <<"s","p","a","c","y",".","s","y","n","t","a","x",".","_","p","a","r","s","e","r","_","m","o","d","e","l">>,
     <<"s","p","a","c","y",".","s","y","n","t","a","x",".","_","b","e","a","m","_","u","t","i","l","s">>,
     <<"s","p","a","c","y",".","s","y","n","t","a","x",".","n","o","n","p","r","o","j">>,
     <<"s","p","a","c","y",".","s","y","n","t","a","x",".","t","r","a","n","s","i","t","i","o","n","_","s","y","s","t","e","m">>,
     <<"s","p","a","c","y",".","s","y","n","t","a","x",".","a","r","c","_","e","a","g","e","r">>,
     <<"s","p","a","c","y",".","g","o","l","d">>,
     <<"s","p","a","c","y",".","t","o","k","e","n","s",".","d","o","c">>,
     <<"s","p","a","c","y",".","t","o","k","e","n","s",".","s","p","a","n">>,
     <<"s","p","a","c","y",".","t","o","k","e","n","s",".","t","o","k","e","n">>,
     <<"s","p","a","c","y",".","t","o","k","e","n","s",".","m","o","r","p","h","a","n","a","l","y","s","i","s">>,
     <<"s","p","a","c","y",".","t","o","k","e","n","s",".","_","r","e","t","o","k","e","n","i","z","e">>,
     <<"s","p","a","c","y",".","m","a","t","c","h","e","r",".","m","a","t","c","h","e","r">>,
     <<"s","p","a","c","y",".","m","a","t","c","h","e","r",".","p","h","r","a","s","e","m","a","t","c","h","e","r">>,
     <<"s","p","a","c","y",".","m","a","t","c","h","e","r",".","d","e","p","e","n","d","e","n","c","y","m","a","t","c","h","e","r">>,
     <<"s","p","a","c","y",".","s","y","n","t","a","x",".","n","e","r">>,
     <<"s","p","a","c","y",".","s","y","m","b","o","l","s">>,
     <<"s","p","a","c","y",".","v","e","c","t","o","r","s">> >>

\* COMPILE_OPTIONS and LINK_OPTIONS map a compiler type to a list object;
\* the six lists are the first six objects of the heap.
COMPILE_OPTIONS == [msvc |-> 1, mingw32 |-> 2, other |-> 3]

LINK_OPTIONS == [msvc |-> 4, mingw32 |-> 5, other |-> 6]

\* The heap after the two dict literals are evaluated.
BaselineHeap ==
  << <<<<"/","O","x">>, <<"/","E","H","s","c">>>>,
     <<<<"-","O","2">>, <<"-","W","n","o","-","s","t","r","i","c","t","-","p","r","o","t","o","t","y","p","e","s">>, <<"-","W","n","o","-","u","n","u","s","e","d","-","f","u","n","c","t","i","o","n">>>>,
     <<<<"-","O","2">>, <<"-","W","n","o","-","s","t","r","i","c","t","-","p","r","o","t","o","t","y","p","e","s">>, <<"-","W","n","o","-","u","n","u","s","e","d","-","f","u","n","c","t","i","o","n">>>>,
     <<>>, <<>>, <<>> >>

\* list.append(x) on the list object id.
list_append(h, id, x) == [h EXCEPT ![id] = Append(h[id], x)]

\* The module-level `if is_new_osx():` block.
augment_for_osx(h) ==
  list_append(
    list_append(
      list_append(h, COMPILE_OPTIONS["other"], <<"-","s","t","d","l","i","b","=","l","i","b","c","+","+">>),
      LINK_OPTIONS["other"], <<"-","l","c","+","+">>),
    LINK_OPTIONS["other"], <<"-","n","o","d","e","f","a","u","l","t","l","i","b","s">>)

\* dict.get with the default of another key.
dict_get_msvc_default(d, key, default) ==
  IF key \in DOMAIN d THEN d[key] ELSE d["msvc"]

\* dict.get(key, default).
dict_get(d, key, default) == IF key \in DOMAIN d THEN d[key] ELSE default

\* a += b on list objects: extends the object a in place with the contents of b.
list_iadd(h, a, b) == [h EXCEPT ![a] = h[a] \o h[b]]


\* build_ext_options.build_options: the first loop extends every
\* extension's extra_compile_args, the second every extra_link_args.
RECURSIVE extend_compile_args(_, _, _)
extend_compile_args(h, exts, compiler_type) ==
  IF exts = <<>> THEN h
  ELSE extend_compile_args(
         list_iadd(h, Head(exts).extra_compile_args,
                   dict_get(COMPILE_OPTIONS, compiler_type, COMPILE_OPTIONS["other"])),
         Tail(exts), compiler_type)

RECURSIVE extend_link_args(_, _, _)
extend_link_args(h, exts, compiler_type) ==
  IF exts = <<>> THEN h
  ELSE extend_link_args(
         list_iadd(h, Head(exts).extra_link_args,
                   dict_get(LINK_OPTIONS, compiler_type, LINK_OPTIONS["other"])),
         Tail(exts), compiler_type)

\* build_options with the macOS augmentation applied at each consultation.
build_options_reaugmenting(h, exts, compiler_type) ==
  extend_link_args(extend_compile_args(augment_for_osx(h), exts, compiler_type),
                   exts, compiler_type)

build_options(h, exts, compiler_type) ==
  extend_link_args(extend_compile_args(h, exts, compiler_type), exts, compiler_type)

(***************************************************************************)
(* The extension descriptors of setup_package.                             *)
(***************************************************************************)
\* mod_path with replace(".", "/", 1): only the first "." is replaced.
mod_path_first_dot(mod_name) ==
  LET parts == str_split(mod_name, ".")
  IN  (IF Len(parts) = 1 THEN mod_name
       ELSE parts[1] \o <<"/">> \o str_join(<<".">>, Tail(parts))) \o <<".","c","p","p">>

\* mod_path = mod_name.replace(".", "/") + ".cpp"
mod_path(mod_name) == str_replace(mod_name, ".", "/") \o <<".","c","p","p">>

\* dylib_path with a single "..", whatever the depth of the module.
dylib_path_one_up(mod_name) ==
  <<"@","l","o","a","d","e","r","_","p","a","t","h","/">> \o <<".",".">> \o <<"/","s","p","a","c","y","/","p","l","a","t","f","o","r","m","/","d","a","r","w","i","n","/","l","i","b">>

\* The three assignments to dylib_path.
dylib_path(mod_name) ==
  LET ups    == [i \in 1..str_count(mod_name, ".") |-> <<".",".">>]
      joined == str_join(<<"/">>, ups)
  IN  <<"@","l","o","a","d","e","r","_","p","a","t","h","/">> \o joined \o <<"/","s","p","a","c","y","/","p","l","a","t","f","o","r","m","/","d","a","r","w","i","n","/","l","i","b">>

\* extra_link_args with the test on sys.platform dropped.
rpath_link_args_everywhere(platform, mod_name) ==
  << <<"-","W","l",",","-","r","p","a","t","h",",">> \o dylib_path(mod_name) >>

\* extra_link_args of one module, as passed to Extension(...).
rpath_link_args(platform, mod_name) ==
  IF platform = "darwin"
  THEN << <<"-","W","l",",","-","r","p","a","t","h",",">> \o dylib_path(mod_name) >>
  ELSE <<>>

\* include_dirs; msvc9 is the outcome of the test on new_compiler() and
\* get_build_version().
include_dirs_of(msvc9) ==
  IF msvc9
  THEN <<"python_inc", "root/include", "root/include/msvc9">>
  ELSE <<"python_inc", "root/include">>

\* Extension(mod_name, [mod_path], language="c++", include_dirs=...,
\* extra_link_args=...): the descriptor owns two list objects, allocated at
\* the end of the heap h.
Extension(h, mod_name, sources, include_dirs, extra_link_args) ==
  [name               |-> mod_name,
   sources            |-> sources,
   language           |-> "c++",
   include_dirs       |-> include_dirs,
   extra_compile_args |-> Len(h) + 1,
   extra_link_args    |-> Len(h) + 2]

\* The loop `for mod_name in MOD_NAMES:`; acc is [heap, exts].
RECURSIVE build_ext_modules(_, _, _, _)
build_ext_modules(names, platform, include_dirs, acc) ==
  IF names = <<>> THEN acc
  ELSE LET mod_name == Head(names)
           link     == rpath_link_args(platform, mod_name)
           ext      == Extension(acc.heap, mod_name, <<mod_path(mod_name)>>,
                                 include_dirs, link)
       IN  build_ext_modules(Tail(names), platform, include_dirs,
                             [heap |-> acc.heap \o << <<>>, link >>,
                              exts |-> Append(acc.exts, ext)])

(***************************************************************************)
(* generate_cython and clean.                                              *)
(***************************************************************************)
\* generate_cython with the exit status ignored.
generate_cython_never_raises(p) == FALSE

\* `if p != 0: raise RuntimeError(...)`
generate_cython_raises(p) == p # 0

\* The extensions of clean with "c" forgotten.
CLEAN_EXTS_without_c == <<<<"s","o">>, <<"h","t","m","l">>, <<"c","p","p">>>>

\* The extensions of the inner loop of clean.
CLEAN_EXTS == <<<<"s","o">>, <<"h","t","m","l">>, <<"c","p","p">>, <<"c">>>>

\* The iterations of clean's two nested loops, numbered in the order the
\* code runs them.
CleanPositions == 1..(Len(MOD_NAMES) * Len(CLEAN_EXTS))

\* file_path of iteration k, relative to the project root.
clean_file_path(k) ==
  LET name == str_replace(MOD_NAMES[((k - 1) \div Len(CLEAN_EXTS)) + 1], ".", "/")
      ext  == CLEAN_EXTS[((k - 1) % Len(CLEAN_EXTS)) + 1]
  IN  name \o <<".">> \o ext

CleanPaths == [k \in CleanPositions |-> clean_file_path(k)]

\* file_path.unlink() on a file that exists.
unlink(files, path) == files \ {path}

\* The iterations from k on in which file_path.exists() is true.
clean_pending(k, files) ==
  {n \in CleanPositions : n >= k /\ CleanPaths[n] \in files}

(***************************************************************************)
(* The environment.                                                        *)
(***************************************************************************)
Root == "root"

Dirs == {Root, "elsewhere"}

\* sys.platform with distutils.util.get_platform(): the platform's own
\* string, or the _PYTHON_HOST_PLATFORM override of a cross build.
Platforms ==
  {<<"linux", <<"l","i","n","u","x","-","x","8","6","_","6","4">>>>,
   <<"linux", <<"m","a","c","o","s","x","-","1","0",".","7","-","x","8","6","_","6","4">>>>,
   <<"win32", <<"w","i","n","-","a","m","d","6","4">>>>,
   <<"darwin", <<"m","a","c","o","s","x","-","1","0",".","6","-","i","n","t","e","l">>>>,
   <<"darwin", <<"m","a","c","o","s","x","-","1","0",".","7","-","x","8","6","_","6","4">>>>,
   <<"darwin", <<"m","a","c","o","s","x","-","1","1",".","0","-","a","r","m","6","4">>>>,
   <<"darwin", <<"m","a","c","o","s","x","-","1","0","-","x","8","6","_","6","4">>>>,
   <<"darwin", <<"m","a","c","o","s","x","-","1","0",".","x","-","x","8","6","_","6","4">>>>}

PKG_INFO == <<"P","K","G","-","I","N","F","O">>

ABOUT_PY == <<"s","p","a","c","y","/","a","b","o","u","t",".","p","y">>

InitialFileUniverse ==
  {PKG_INFO, ABOUT_PY, <<"s","p","a","c","y","/","k","b",".","s","o">>, <<"s","p","a","c","y","/","s","y","n","t","a","x","/","n","e","r",".","c">>}

\* Files bin/cythonize.py may write.
GeneratorOutputs == {<<"s","p","a","c","y","/","k","b",".","c","p","p">>}

ExitStatuses == {0, 1}

Argvs == {<<"setup.py">>, <<"setup.py", "clean">>, <<"setup.py", "build_ext">>}

CompilerTypes == {"msvc", "mingw32", "unix"}

VARIABLES
  sys_platform,   \* sys.platform
  platform_name,  \* distutils.util.get_platform()
  shell_cwd,      \* the directory the script is started from
  fs,             \* the files under the project root, by relative path
  pc,             \* where the process is
  argv,           \* sys.argv
  cwd,            \* os.getcwd()
  sys_path,       \* sys.path
  old_dir,        \* old_dir of chdir
  scope,          \* "none", "inside" or "exited": the `with chdir(root)` scope
  exc,            \* the exception that ended the process, or "none"
  heap,           \* the list objects
  ext_modules,    \* ext_modules of setup_package
  clean_k,        \* the iteration clean is at
  gen_log,        \* the exit statuses of the generator runs of this process
  setup_called,   \* setup(...) was called
  setup_args,     \* the ext_modules given to setup(...)
  build_calls,    \* the compiler types build_options ran with, in order
  prev            \* whether the previous process was a clean that completed,
                  \* and the files it left

vars ==
  <<sys_platform, platform_name, shell_cwd, fs, pc, argv, cwd, sys_path,
    old_dir, scope, exc, heap, ext_modules, clean_k, gen_log, setup_called,
    setup_args, build_calls, prev>>

env_vars == <<sys_platform, platform_name, shell_cwd>>

is_clean(a) == Len(a) > 1 /\ a[2] = "clean"

Init ==
  /\ \E p \in Platforms : sys_platform = p[1] /\ platform_name = p[2]
  /\ shell_cwd \in Dirs
  /\ fs \in {F \in SUBSET InitialFileUniverse : Cardinality(F) <= MaxInitFiles}
  /\ pc = "idle"
  /\ argv = <<>>
  /\ cwd = shell_cwd
  /\ sys_path = <<>>
  /\ old_dir = "unset"
  /\ scope = "none"
  /\ exc = "none"
  /\ heap = <<>>
  /\ ext_modules = <<>>
  /\ clean_k = 0
  /\ gen_log = <<>>
  /\ setup_called = FALSE
  /\ setup_args = <<>>
  /\ build_calls = <<>>
  /\ prev = [kind |-> "other", files |-> {}]

(***************************************************************************)
(* Running the script.                                                     *)
(***************************************************************************)
\* `python setup.py ...`: a new process runs the module-level code, which
\* builds the tables and calls is_new_osx().
run_script(a) ==
  /\ pc \in {"idle", "done", "raised"}
  /\ LET r == is_new_osx(sys_platform, platform_name)
     IN  /\ heap' = IF r.raised = "none" /\ r.value
                    THEN augment_for_osx(BaselineHeap)
                    ELSE BaselineHeap
         /\ exc' = r.raised
         /\ pc' = IF r.raised = "none" THEN "main" ELSE "raised"
  /\ argv' = a
  /\ cwd' = shell_cwd
  /\ sys_path' = <<Root, "site-packages">>
  /\ old_dir' = "unset"
  /\ scope' = "none"
  /\ ext_modules' = <<>>
  /\ clean_k' = 0
  /\ gen_log' = <<>>
  /\ setup_called' = FALSE
  /\ setup_args' = <<>>
  /\ build_calls' = <<>>
  /\ prev' = IF pc = "done" /\ is_clean(argv)
             THEN [kind |-> "clean", files |-> fs]
             ELSE [kind |-> "other", files |-> {}]
  /\ UNCHANGED <<env_vars, fs>>

\* setup_package: `return clean(root)`.
setup_package_clean ==
  /\ pc = "main"
  /\ is_clean(argv)
  /\ pc' = "clean_exists"
  /\ clean_k' = 1
  /\ UNCHANGED <<env_vars, fs, argv, cwd, sys_path, old_dir, scope, exc, heap,
                 ext_modules, gen_log, setup_called, setup_args, build_calls, prev>>

\* clean: the iterations whose file_path.exists() is false do nothing; the
\* loop runs on to the first iteration whose file exists, or to its end.
clean_exists ==
  /\ pc = "clean_exists"
  /\ LET pending == clean_pending(clean_k, fs)
     IN  IF pending = {}
         THEN /\ pc' = "done"
              /\ clean_k' = Len(MOD_NAMES) * Len(CLEAN_EXTS) + 1
         ELSE /\ pc' = "clean_unlink"
              /\ clean_k' = CHOOSE n \in pending : \A m \in pending : n <= m
  /\ UNCHANGED <<env_vars, fs, argv, cwd, sys_path, old_dir, scope, exc, heap,
                 ext_modules, gen_log, setup_called, setup_args, build_calls, prev>>

\* clean: file_path.unlink(), which raises FileNotFoundError when the file
\* is gone.
clean_unlink ==
  /\ pc = "clean_unlink"
  /\ IF CleanPaths[clean_k] \in fs
     THEN /\ fs' = unlink(fs, CleanPaths[clean_k])
          /\ clean_k' = clean_k + 1
          /\ pc' = "clean_exists"
          /\ exc' = exc
     ELSE /\ fs' = fs
          /\ clean_k' = clean_k
          /\ pc' = "raised"
          /\ exc' = "FileNotFoundError"
  /\ UNCHANGED <<env_vars, argv, cwd, sys_path, old_dir, scope, heap,
                 ext_modules, gen_log, setup_called, setup_args, build_calls, prev>>

(***************************************************************************)
(* The build path: `with chdir(root):`.                                    *)
(***************************************************************************)
\* chdir, up to the yield.
chdir_enter ==
  /\ pc = "main"
  /\ ~is_clean(argv)
  /\ old_dir' = cwd
  /\ cwd' = Root
  /\ sys_path' = <<Root>> \o sys_path
  /\ scope' = "inside"
  /\ pc' = "about"
  /\ UNCHANGED <<env_vars, fs, argv, exc, heap, ext_modules, clean_k, gen_log,
                 setup_called, setup_args, build_calls, prev>>

\* chdir without try/finally: the directory is restored only when the with
\* body ends normally.
chdir_without_finally(e) ==
  /\ scope' = "exited"
  /\ exc' = e
  /\ pc' = IF e = "none" THEN "done" ELSE "raised"
  /\ IF e = "none"
     THEN sys_path' = Tail(sys_path) /\ cwd' = old_dir
     ELSE sys_path' = sys_path /\ cwd' = cwd

\* chdir's finally block, run when the with body ends normally (e is "none")
\* or by the exception e; `del sys.path[0]` raises IndexError on an empty
\* sys.path, and os.chdir(old_dir) is then not reached.
chdir_finally(e) ==
  /\ scope' = "exited"
  /\ IF sys_path = <<>>
     THEN /\ sys_path' = sys_path
          /\ cwd' = cwd
          /\ exc' = "IndexError"
          /\ pc' = "raised"
     ELSE /\ sys_path' = Tail(sys_path)
          /\ cwd' = old_dir
          /\ exc' = e
          /\ pc' = IF e = "none" THEN "done" ELSE "raised"

\* `with (root / "spacy" / "about.py").open("r") as f:`
read_about ==
  /\ pc = "about"
  /\ IF ABOUT_PY \in fs
     THEN /\ pc' = "descriptors"
          /\ UNCHANGED <<cwd, sys_path, scope, exc>>
     ELSE chdir_finally("FileNotFoundError")
  /\ UNCHANGED <<env_vars, fs, argv, old_dir, heap, ext_modules, clean_k,
                 gen_log, setup_called, setup_args, build_calls, prev>>

\* include_dirs and the loop that builds ext_modules.
build_descriptors(msvc9) ==
  /\ pc = "descriptors"
  /\ msvc9 => sys_platform = "win32"
  /\ LET built == build_ext_modules(MOD_NAMES, sys_platform, include_dirs_of(msvc9),
                                    [heap |-> heap, exts |-> <<>>])
     IN  /\ heap' = built.heap
         /\ ext_modules' = built.exts
  /\ pc' = "regen"
  /\ UNCHANGED <<env_vars, fs, argv, cwd, sys_path, old_dir, scope, exc, clean_k,
                 gen_log, setup_called, setup_args, build_calls, prev>>

\* `if not (root / "PKG-INFO").exists():` is false.
skip_generate ==
  /\ pc = "regen"
  /\ PKG_INFO \in fs
  /\ pc' = "setup"
  /\ UNCHANGED <<env_vars, fs, argv, cwd, sys_path, old_dir, scope, exc, heap,
                 ext_modules, clean_k, gen_log, setup_called, setup_args,
                 build_calls, prev>>

\* generate_cython(root, "spacy"): the subprocess writes some files and
\* exits with status p.
generate_cython(p, written) ==
  /\ pc = "regen"
  /\ PKG_INFO \notin fs
  /\ gen_log' = Append(gen_log, p)
  /\ fs' = fs \cup written
  /\ IF generate_cython_raises(p)
     THEN chdir_finally("RuntimeError")
     ELSE /\ pc' = "setup"
          /\ UNCHANGED <<cwd, sys_path, scope, exc>>
  /\ UNCHANGED <<env_vars, argv, old_dir, heap, ext_modules, clean_k,
                 setup_called, setup_args, build_calls, prev>>

\* setup(..., ext_modules=ext_modules, cmdclass=...) is called.
call_setup ==
  /\ pc = "setup"
  /\ setup_called' = TRUE
  /\ setup_args' = ext_modules
  /\ pc' = "in_setup"
  /\ UNCHANGED <<env_vars, fs, argv, cwd, sys_path, old_dir, scope, exc, heap,
                 ext_modules, clean_k, gen_log, build_calls, prev>>

\* build_ext_subclass.build_extensions: setup() runs build_options with the
\* compiler it has settled on.
build_extensions(compiler_type) ==
  /\ pc = "in_setup"
  /\ Len(build_calls) < MaxBuildCalls
  /\ heap' = build_options(heap, setup_args, compiler_type)
  /\ build_calls' = Append(build_calls, compiler_type)
  /\ UNCHANGED <<env_vars, fs, argv, pc, cwd, sys_path, old_dir, scope, exc,
                 ext_modules, clean_k, gen_log, setup_called, setup_args, prev>>

\* setup() returns and the with body ends.
setup_returns ==
  /\ pc = "in_setup"
  /\ chdir_finally("none")
  /\ UNCHANGED <<env_vars, fs, argv, old_dir, heap, ext_modules, clean_k,
                 gen_log, setup_called, setup_args, build_calls, prev>>

\* setup() fails (a compile or link error).
setup_raises ==
  /\ pc = "in_setup"
  /\ chdir_finally("CompileError")
  /\ UNCHANGED <<env_vars, fs, argv, old_dir, heap, ext_modules, clean_k,
                 gen_log, setup_called, setup_args, build_calls, prev>>

\* Another process deletes a generated file while clean is running.
other_process_unlink ==
  /\ pc \in {"clean_exists", "clean_unlink"}
  /\ \E path \in fs \ {PKG_INFO, ABOUT_PY} : fs' = fs \ {path}
  /\ UNCHANGED <<env_vars, pc, argv, cwd, sys_path, old_dir, scope, exc, heap,
                 ext_modules, clean_k, gen_log, setup_called, setup_args,
                 build_calls, prev>>

Next ==
  \/ \E a \in Argvs : run_script(a)
  \/ setup_package_clean
  \/ clean_exists
  \/ clean_unlink
  \/ chdir_enter
  \/ read_about
  \/ \E msvc9 \in BOOLEAN : build_descriptors(msvc9)
  \/ skip_generate
  \/ \E p \in ExitStatuses : \E written \in SUBSET GeneratorOutputs :
       generate_cython(p, written)
  \/ call_setup
  \/ \E compiler_type \in CompilerTypes : build_extensions(compiler_type)
  \/ setup_returns
  \/ setup_raises

Spec == Init /\ [][Next]_vars

\* The script with another process deleting files under it.
NextRace == Next \/ other_process_unlink

SpecRace == Init /\ [][NextRace]_vars

(***************************************************************************)
(* Properties.                                                             *)
(***************************************************************************)
\* The process has run setup_package past the regeneration step.
PastRegeneration ==
  \/ pc \in {"setup", "in_setup"}
  \/ scope = "exited" /\ exc \in {"none", "RuntimeError", "CompileError"}

\* C1: on the build path the generator runs zero times when PKG-INFO exists
\* and exactly once otherwise; setup(...) is called only if the generator was
\* skipped or exited with status 0; a non-zero exit raises RuntimeError and
\* no descriptor is handed to setup().
RegenerationGate ==
  /\ Len(gen_log) <= 1
  /\ PKG_INFO \in fs => gen_log = <<>>
  /\ PastRegeneration => Len(gen_log) = (IF PKG_INFO \in fs THEN 0 ELSE 1)
  /\ setup_called => \/ gen_log = <<>> /\ PKG_INFO \in fs
                     \/ gen_log = <<0>>
  /\ ~setup_called => setup_args = <<>>
  /\ (gen_log # <<>> /\ gen_log[1] # 0) =>
       /\ ~setup_called
       /\ pc = "raised"
       /\ exc = "RuntimeError"

GeneratorFailureAborts ==
  /\ gen_log = <<1>>
  /\ pc = "raised"
  /\ exc = "RuntimeError"
  /\ Len(ext_modules) = Len(MOD_NAMES)
  /\ ~setup_called

\* x is a loader-relative runtime-search-path link argument.
IsRpathArg(x) == str_startswith(x, <<"-","W","l",",","-","r","p","a","t","h",",","@","l","o","a","d","e","r","_","p","a","t","h","/">>)

NoRpathArgs ==
  \A i \in DOMAIN ext_modules :
    LET args == heap[ext_modules[i].extra_link_args]
    IN  /\ \A j \in DOMAIN args : ~IsRpathArg(args[j])
        /\ build_calls = <<>> => args = <<>>

\* C2, as claimed: wherever is_new_osx() is false, no descriptor carries the
\* runtime-search-path argument, and extra_link_args is empty at construction.
NoRpathUnlessNewOsx ==
  (/\ pc # "idle"
   /\ is_new_osx(sys_platform, platform_name) = Returns(FALSE)) => NoRpathArgs

\* C2, amended: wherever sys.platform is not "darwin", no descriptor carries
\* the runtime-search-path argument, and extra_link_args is empty at
\* construction.
NoRpathOffDarwin ==
  (pc # "idle" /\ sys_platform # "darwin") => NoRpathArgs

DescriptorsBuiltOffDarwin ==
  /\ sys_platform # "darwin"
  /\ pc = "regen"
  /\ Len(ext_modules) = Len(MOD_NAMES)

\* C3: one descriptor per manifest entry, in manifest order, whose only
\* source is the module name with every "." turned into "/", then ".cpp".
DescriptorsMatchManifest ==
  (pc \in {"regen", "setup", "in_setup"} \/ ext_modules # <<>>) =>
    /\ Len(ext_modules) = Len(MOD_NAMES)
    /\ \A i \in DOMAIN MOD_NAMES :
         LET name == MOD_NAMES[i]
             d    == ext_modules[i]
         IN  /\ d.name = name
             /\ Len(d.sources) = 1
             /\ Len(d.sources[1]) = Len(name) + 4
             /\ \A k \in DOMAIN name :
                  d.sources[1][k] = (IF name[k] = "." THEN "/" ELSE name[k])
             /\ SubSeq(d.sources[1], Len(name) + 1, Len(name) + 4)
                  = <<".", "c", "p", "p">>
    /\ setup_called => setup_args = ext_modules

DescriptorsHandedToSetup ==
  /\ setup_called
  /\ Len(setup_args) = Len(MOD_NAMES)
  /\ \E i \in DOMAIN setup_args :
       Cardinality({k \in DOMAIN setup_args[i].name : setup_args[i].name[k] = "."}) = 2

RECURSIVE repeated(_, _)
repeated(s, n) == IF n = 0 THEN <<>> ELSE s \o repeated(s, n - 1)

\* C4: build_options run with compiler types that are no key of the tables
\* gives every extension the compile flags and the link flags of "other",
\* once per run, after what the extension was built with.
UnknownCompilerGetsOther ==
  (/\ build_calls # <<>>
   /\ \A i \in DOMAIN build_calls : build_calls[i] \notin {"msvc", "mingw32", "other"}) =>
    /\ pc \in {"in_setup", "done", "raised"}
    /\ exc \in {"none", "CompileError"}
    /\ \A i \in DOMAIN setup_args :
         LET n     == Len(build_calls)
             built == IF sys_platform = "darwin" THEN 1 ELSE 0
             cargs == heap[setup_args[i].extra_compile_args]
             largs == heap[setup_args[i].extra_link_args]
         IN  /\ cargs = repeated(heap[COMPILE_OPTIONS["other"]], n)
             /\ Len(largs) = built + n * Len(heap[LINK_OPTIONS["other"]])
             /\ SubSeq(largs, built + 1, Len(largs))
                  = repeated(heap[LINK_OPTIONS["other"]], n)

UnknownCompilerOnNewOsx ==
  /\ build_calls = <<"unix", "unix">>
  /\ is_new_osx(sys_platform, platform_name) = Returns(TRUE)
  /\ pc = "in_setup"
  /\ Len(setup_args) = Len(MOD_NAMES)

\* C5: where is_new_osx() is true, the compile flags of "other" hold
\* "-stdlib=libc++" exactly once and the six flag lists are what the
\* module-level code made them, however often build_options has run.
PolicyTablesStable ==
  (pc # "idle" /\ is_new_osx(sys_platform, platform_name) = Returns(TRUE)) =>
    /\ Cardinality({j \in DOMAIN heap[COMPILE_OPTIONS["other"]] :
                      heap[COMPILE_OPTIONS["other"]][j] = <<"-","s","t","d","l","i","b","=","l","i","b","c","+","+">>}) = 1
    /\ heap[COMPILE_OPTIONS["other"]]
         = <<<<"-","O","2">>, <<"-","W","n","o","-","s","t","r","i","c","t","-","p","r","o","t","o","t","y","p","e","s">>, <<"-","W","n","o","-","u","n","u","s","e","d","-","f","u","n","c","t","i","o","n">>, <<"-","s","t","d","l","i","b","=","l","i","b","c","+","+">>>>
    /\ heap[COMPILE_OPTIONS["mingw32"]]
         = <<<<"-","O","2">>, <<"-","W","n","o","-","s","t","r","i","c","t","-","p","r","o","t","o","t","y","p","e","s">>, <<"-","W","n","o","-","u","n","u","s","e","d","-","f","u","n","c","t","i","o","n">>>>
    /\ heap[COMPILE_OPTIONS["msvc"]] = <<<<"/","O","x">>, <<"/","E","H","s","c">>>>
    /\ heap[LINK_OPTIONS["other"]] = <<<<"-","l","c","+","+">>, <<"-","n","o","d","e","f","a","u","l","t","l","i","b","s">>>>
    /\ heap[LINK_OPTIONS["mingw32"]] = <<>>
    /\ heap[LINK_OPTIONS["msvc"]] = <<>>

PolicyConsultedTwiceOnNewOsx ==
  /\ is_new_osx(sys_platform, platform_name) = Returns(TRUE)
  /\ Len(build_calls) >= 2
  /\ pc = "in_setup"
  /\ \E i \in DOMAIN build_calls : build_calls[i] = "unix"

\* The files clean is to delete: <module path>.{so,html,cpp,c}.
GeneratedArtifacts ==
  {str_replace(MOD_NAMES[i], ".", "/") \o <<".">> \o e :
     i \in DOMAIN MOD_NAMES, e \in {<<"s","o">>, <<"h","t","m","l">>, <<"c","p","p">>, <<"c">>}}

\* C6: with no other process at work, a clean that completes leaves no
\* generated artifact, a clean run right after a completed clean leaves the
\* files as that one left them, and clean never raises for an absent file.
CleanIdempotent ==
  is_clean(argv) =>
    /\ pc = "done" => fs \cap GeneratedArtifacts = {}
    /\ (pc = "done" /\ prev.kind = "clean") => fs = prev.files
    /\ exc # "FileNotFoundError"

SecondCleanDone ==
  /\ is_clean(argv)
  /\ pc = "done"
  /\ prev.kind = "clean"
  /\ prev.files # {}

\* C9: clean completes without raising although another process deletes
\* generated files while it runs.
CleanSurvivesConcurrentUnlink ==
  ~(is_clean(argv) /\ pc = "raised" /\ exc = "FileNotFoundError")

\* C7: on the platform where the runtime-search-path argument is attached,
\* it is "-Wl,-rpath," then the path @loader_path, one ".." per "." of the
\* module name, spacy/platform/darwin/lib.
RpathDepthMatchesDots ==
  (sys_platform = "darwin" /\ ext_modules # <<>> /\ build_calls = <<>>) =>
    \A i \in DOMAIN ext_modules :
      LET name == ext_modules[i].name
          dots == Cardinality({k \in DOMAIN name : name[k] = "."})
          args == heap[ext_modules[i].extra_link_args]
          path == SubSeq(args[1], Len(<<"-","W","l",",","-","r","p","a","t","h",",">>) + 1, Len(args[1]))
          segs == str_split(path, "/")
      IN  /\ Len(args) = 1
          /\ SubSeq(args[1], 1, Len(<<"-","W","l",",","-","r","p","a","t","h",",">>)) = <<"-","W","l",",","-","r","p","a","t","h",",">>
          /\ Len(segs) = dots + 5
          /\ segs[1] = <<"@","l","o","a","d","e","r","_","p","a","t","h">>
          /\ \A k \in 2..(dots + 1) : segs[k] = <<".",".">>
          /\ Cardinality({k \in DOMAIN segs : segs[k] = <<".",".">>}) = dots
          /\ SubSeq(segs, dots + 2, dots + 5)
               = <<<<"s","p","a","c","y">>, <<"p","l","a","t","f","o","r","m">>, <<"d","a","r","w","i","n">>, <<"l","i","b">>>>

RpathBuiltOnDarwin ==
  /\ sys_platform = "darwin"
  /\ pc = "regen"
  /\ \E i \in DOMAIN ext_modules : str_count(ext_modules[i].name, ".") = 2
  /\ \E i \in DOMAIN ext_modules : str_count(ext_modules[i].name, ".") = 1

\* C8: is_new_osx() never raises, and is false off macOS and for a macOS
\* platform string whose version is not "10.<integer>".
ClassifierNeverRaises ==
  pc # "idle" =>
    /\ is_new_osx(sys_platform, platform_name).raised = "none"
    /\ ~(pc = "raised" /\ scope = "none" /\ exc \in {"IndexError", "ValueError"})
    /\ sys_platform # "darwin" => ~is_new_osx(sys_platform, platform_name).value

\* C10: once control has left `with chdir(root)`, by the end of the body or
\* by an exception, the working directory is the one the process had before
\* the scope was entered.
CwdRestoredOnExit ==
  scope = "exited" => (cwd = shell_cwd /\ cwd = old_dir)

CwdRestoredAfterGeneratorFailure ==
  /\ scope = "exited"
  /\ exc = "RuntimeError"
  /\ shell_cwd # Root
  /\ cwd = shell_cwd

====
